---- MODULE Spec2Model ----
(***************************************************************************)
(* Pattern detection core of pattern-backend (core/pattern_recognition.py) *)
(*                                                                         *)
(* Dates are day numbers (day 0 is a Monday); a unix timestamp of a date   *)
(* is the day number times 86400 (midnight, zero UTC offset).  Prices and  *)
(* indicator values are small integers, which float() represents exactly;  *)
(* ratio tests are written cross-multiplied, which for positive operands   *)
(* of this size agrees with the correctly rounded float division.          *)
(* List indices are 0-based as in the source; Row(k) reads element k.      *)
(***************************************************************************)
EXTENDS Integers, Sequences, FiniteSets, TLC

VARIABLES
    pc,                 \* position of the call: entry, detect, scan, refine, bowl, done
    entry,              \* the function the caller invoked
    pattern,            \* get_pattern_triggers argument
    series,             \* get_pattern_triggers argument (already a plain string or None)
    weeks,              \* get_pattern_triggers parameter, after the default was bound
    weeks_given,        \* whether the caller passed weeks at all
    eod_rows,           \* EodPrice rows of the instrument, ascending by trade_date
    param_rows,         \* Parameter rows of the instrument (series field not null), ascending
    weekly_data,        \* weekly candles handed to the narrow-range detector
    nrb_lookback,       \* n of NRn handed to the narrow-range detector
    i,                  \* loop index of the running scan
    last_breakout_idx,  \* narrow-range cooldown watermark
    nrb_id,             \* next regime identifier
    result,             \* trigger list being built / refined / returned
    t,                  \* index of the trigger the refiner looks at next
    rows,               \* normalised rows of the bowl detector
    last_used,          \* bowl watermark
    pattern_id,         \* next bowl identifier
    verdict,            \* how the last iteration of the bowl loop ended
    call_no,            \* 1 during the caller's first invocation, 2 during its repetition
    first_result,       \* what the first invocation returned
    success_rate,       \* get_pattern_triggers argument
    legacy_nrb_lookback, \* get_pattern_triggers argument nrb_lookback
    markers             \* markers list built by PatternScanView.get

vars == <<pc, entry, pattern, series, weeks, weeks_given, eod_rows, param_rows, weekly_data,
          nrb_lookback, i, last_breakout_idx, nrb_id, result, t, rows,
          last_used, pattern_id, verdict, call_no, first_result, success_rate,
          legacy_nrb_lookback, markers>>

\* An optional value: Python None is the empty tuple, a value v is <<v>>
None == <<>>
Some(v) == <<v>>

(***************************************************************************)
(* Bounds of the explored inputs                                           *)
(***************************************************************************)
MaxWeekly == 6          \* longest weekly list handed straight to the detector
MaxDailyWeeks == 4      \* calendar weeks spanned by a daily input
MaxN == 2               \* largest window size tried on the generated inputs

(***************************************************************************)
(* Generic helpers                                                         *)
(***************************************************************************)
MaxOf(S) == CHOOSE x \in S : \A y \in S : y <= x
MinOf(S) == CHOOSE x \in S : \A y \in S : x <= y

RECURSIVE SortedSeq(_)
SortedSeq(S) == IF S = {} THEN <<>> ELSE <<MinOf(S)>> \o SortedSeq(S \ {MinOf(S)})

RECURSIVE Flatten(_)
Flatten(ss) == IF ss = <<>> THEN <<>> ELSE Head(ss) \o Flatten(Tail(ss))

SeqsUpTo(S, n) == UNION {[1..m -> S] : m \in 0..n}

\* datetime.combine(d, datetime.min.time()).timestamp()
Timestamp(d) == d * 86400
\* datetime.fromtimestamp(ts).date()
DateOfTimestamp(ts) == ts \div 86400
\* TruncWeek: the Monday of the week containing d
TruncWeek(d) == d - (d % 7)

(***************************************************************************)
(* Storage rows and the inputs explored                                    *)
(***************************************************************************)
\* One EodPrice row (models.py EodPrice)
EodRow(d, o, h, l, c) == [trade_date |-> d, open |-> o, high |-> h, low |-> l, close |-> c]
\* One Parameter row; value is the column the series selector names (ema50 for Bowl)
ParamRow(d, v, c) == [trade_date |-> d, value |-> v, closing_price |-> c]

\* What one calendar week of EodPrice rows can look like: <<weekday, open, high, low, close>>
PriceWeekShapes ==
    { <<>>,
      << <<4, 1, 2, 1, 2>> >>,
      << <<0, 2, 3, 2, 2>>, <<3, 2, 3, 2, 3>> >>,
      << <<2, 3, 4, 2, 3>> >>,
      << <<4, 1, 2, 1, 4>> >> }

\* What one calendar week of Parameter rows can look like: <<weekday, value>>
ParamWeekShapes ==
    { <<>>,
      << <<4, 2>> >>,
      << <<0, 2>>, <<3, 3>> >>,
      << <<2, 4>> >>,
      << <<0, 1>>, <<4, 2>> >>,
      << <<0, 4>>, <<3, 3>> >> }

PriceWeek(w, shape) ==
    [k \in 1..Len(shape) |->
        EodRow(7 * w + shape[k][1], shape[k][2], shape[k][3], shape[k][4], shape[k][5])]
ParamWeek(w, shape) ==
    [k \in 1..Len(shape) |-> ParamRow(7 * w + shape[k][1], shape[k][2], shape[k][2])]

DailyPriceInputs ==
    { Flatten([w \in 1..Len(ss) |-> PriceWeek(w - 1, ss[w])]) :
        ss \in SeqsUpTo(PriceWeekShapes, MaxDailyWeeks) }
DailyParamInputs ==
    { Flatten([w \in 1..Len(ss) |-> ParamWeek(w - 1, ss[w])]) :
        ss \in SeqsUpTo(ParamWeekShapes, MaxDailyWeeks) }

\* A weekly candle as weekly_qs.values("date", "high", "low", "close", "week") yields it
WeeklyRow(d, h, l, c, w) == [date |-> d, high |-> h, low |-> l, close |-> c, week |-> w]

\* <<high, low>> of the weekly candles handed straight to the detector
WeeklyShapes == { <<2, 1>>, <<3, 2>>, <<4, 2>> }
WeeklyFrom(hl) ==
    [k \in 1..Len(hl) |->
        WeeklyRow(7 * (k - 1) + 4, hl[k][1], hl[k][2], hl[k][1], 7 * (k - 1))]
WeeklyInputs == { WeeklyFrom(hl) : hl \in SeqsUpTo(WeeklyShapes, MaxWeekly) }

\* Scenario A of the specification: ten weekly candles, n = 4
ScenarioAHighs == <<10, 10, 10, 10, 10, 10, 9, 10, 10, 15>>
ScenarioALows == <<5, 5, 5, 5, 5, 5, 8, 5, 5, 5>>
ScenarioA == WeeklyFrom([k \in 1..10 |-> <<ScenarioAHighs[k], ScenarioALows[k]>>])

(***************************************************************************)
(* Weekly aggregation                                                      *)
(***************************************************************************)
WeeksOf(q) == SortedSeq({TruncWeek(q[k].trade_date) : k \in DOMAIN q})
WeekGroup(q, w) == {k \in DOMAIN q : TruncWeek(q[k].trade_date) = w}

\* mutant: a weekly candle is dated at the Monday of its week
get_weekly_queryset_DatedAtWeekStart(q) ==
    LET ws == WeeksOf(q) IN
    [j \in 1..Len(ws) |->
        LET g == WeekGroup(q, ws[j]) IN
        [week  |-> ws[j],
         open  |-> MinOf({q[k].open : k \in g}),
         high  |-> MaxOf({q[k].high : k \in g}),
         low   |-> MinOf({q[k].low : k \in g}),
         close |-> MaxOf({q[k].close : k \in g}),
         date  |-> ws[j]]]

\* mutant: the weekly close is the smallest close of the week
get_weekly_queryset_MinClose(q) ==
    LET ws == WeeksOf(q) IN
    [j \in 1..Len(ws) |->
        LET g == WeekGroup(q, ws[j]) IN
        [week  |-> ws[j],
         open  |-> MinOf({q[k].open : k \in g}),
         high  |-> MaxOf({q[k].high : k \in g}),
         low   |-> MinOf({q[k].low : k \in g}),
         close |-> MinOf({q[k].close : k \in g}),
         date  |-> MaxOf({q[k].trade_date : k \in g})]]

\* get_weekly_queryset: one candle per week that has rows, ordered by week
get_weekly_queryset(q) ==
    LET ws == WeeksOf(q) IN
    [j \in 1..Len(ws) |->
        LET g == WeekGroup(q, ws[j]) IN
        [week  |-> ws[j],
         open  |-> MinOf({q[k].open : k \in g}),
         high  |-> MaxOf({q[k].high : k \in g}),
         low   |-> MinOf({q[k].low : k \in g}),
         close |-> MaxOf({q[k].close : k \in g}),
         date  |-> MaxOf({q[k].trade_date : k \in g})]]

\* the weekly candles of a Parameter series, built inline in get_pattern_triggers
param_weekly_qs(q) ==
    LET ws == WeeksOf(q) IN
    [j \in 1..Len(ws) |->
        LET g == WeekGroup(q, ws[j]) IN
        [week  |-> ws[j],
         high  |-> MaxOf({q[k].value : k \in g}),
         low   |-> MinOf({q[k].value : k \in g}),
         close |-> MaxOf({q[k].value : k \in g}),
         date  |-> MaxOf({q[k].trade_date : k \in g})]]

\* weekly_qs.values("date", "high", "low", "close", "week")
WeeklyValues(wq) ==
    [j \in 1..Len(wq) |->
        WeeklyRow(wq[j].date, wq[j].high, wq[j].low, wq[j].close, wq[j].week)]

(***************************************************************************)
(* get_pattern_triggers: the narrow-range branches                         *)
(***************************************************************************)
NRB_LOOKBACK == 7
BREAKOUT_LOOKAHEAD_WEEKS == 12
\* weeks: int = 20 in the signature of get_pattern_triggers
WEEKS_DEFAULT == 20

\* str.strip().lower() on the spellings a caller is given here
strip_lower(s) ==
    CASE s = " EMA21 " -> "ema21"
      [] s = "Close" -> "close"
      [] s = "Volume" -> "volume"
      [] OTHER -> s

\* (series or "").strip().lower()
series_normalized == strip_lower(IF series = None THEN "" ELSE series[1])
PriceSeriesNames == {"", "price", "close", "closing_price"}
PARAM_FIELD_MAP == {"ema21", "ema50", "ema200", "rsc30", "rsc500"}

\* nr_weeks = weeks if weeks and weeks > 0 else NRB_LOOKBACK
nr_weeks == IF weeks # None /\ weeks[1] > 0 THEN weeks[1] ELSE NRB_LOOKBACK

\* mutant: the entry guard lets n+1 weekly candles through
TooFewWeeks_OffByOne(total_weeks, n) == total_weeks < n + 1

\* if total_weeks < nr_weeks + 2: return []
TooFewWeeks(total_weeks, n) == total_weeks < n + 2

(***************************************************************************)
(* _detect_narrow_range_break_python                                       *)
(***************************************************************************)
\* rows[k] of the detector (0-based)
Row(k) == weekly_data[k + 1]

\* if len(weekly_data) < nrb_lookback + 1: return []
DetectorTooShort(len, n) == len < n + 1

\* preceding_rows = max(nrb_lookback - 1, 0)
preceding_rows(n) == IF n - 1 > 0 THEN n - 1 ELSE 0

\* mutant: the cooldown ends at the breakout week instead of n weeks after it
InCooldown_UntilBreakout(idx, lb, n) == lb # -1 /\ idx < lb

\* mutant: the cooldown is one week short
InCooldown_OneShort(idx, lb, n) == lb # -1 /\ idx < lb + n - 1

\* mutant: there is no cooldown after a breakout
InCooldown_Never(idx, lb, n) == FALSE

\* if last_breakout_idx != -1 and i < last_breakout_idx + nrb_lookback: continue
InCooldown(idx, lb, n) == lb # -1 /\ idx < lb + n

\* mutant: the window reaches one week further back
window_start_OneEarly(idx, n) == IF idx - n > 0 THEN idx - n ELSE 0

\* window_start = max(0, i - preceding_rows)
window_start(idx, n) == IF idx - preceding_rows(n) > 0 THEN idx - preceding_rows(n) ELSE 0

\* range(window_start, window_end) with window_end = i + 1
Window(idx, n) == window_start(idx, n)..idx

Spread(k) == Row(k).high - Row(k).low
min_spread(idx, n) == MinOf({Spread(j) : j \in Window(idx, n)})
range_high(idx, n) == MaxOf({Row(j).high : j \in Window(idx, n)})
range_low(idx, n) == MinOf({Row(j).low : j \in Window(idx, n)})

\* mutant: a week that only ties the narrowest spread of its window does not qualify
IsNarrowWeek_StrictlyNarrowest(idx, n) ==
    \A j \in Window(idx, n) \ {idx} : Spread(idx) < Spread(j)

\* if spread != min_spread: continue
IsNarrowWeek(idx, n) == Spread(idx) = min_spread(idx, n)

\* mutant: the breakout search runs to the end of the weekly list
lookahead_end_Unbounded(idx) == Len(weekly_data)

\* lookahead_end = min(n, i + 1 + BREAKOUT_LOOKAHEAD_WEEKS)
lookahead_end(idx) ==
    IF Len(weekly_data) < idx + 1 + BREAKOUT_LOOKAHEAD_WEEKS
    THEN Len(weekly_data) ELSE idx + 1 + BREAKOUT_LOOKAHEAD_WEEKS

\* mutant: a weekly high equal to the resistance counts as a breakout
breakout_idx_OrEqual(idx, resistance) ==
    LET hits == {k \in (idx + 1)..(lookahead_end(idx) - 1) : Row(k).high >= resistance}
    IN IF hits = {} THEN None ELSE Some(MinOf(hits))

\* first k in range(i + 1, lookahead_end) with rows[k]["high"] > resistance, else None
breakout_idx(idx, resistance) ==
    LET hits == {k \in (idx + 1)..(lookahead_end(idx) - 1) : Row(k).high > resistance}
    IN IF hits = {} THEN None ELSE Some(MinOf(hits))

\* float(row.get("is_successful_trade") or 0.0): 0 for a row without that key
is_successful_trade(row) ==
    IF "is_successful_trade" \in DOMAIN row THEN row.is_successful_trade ELSE 0

\* the dict appended to result
NrbTrigger(idx, n, b, id) ==
    [time             |-> Timestamp(Row(b).date),
     score            |-> is_successful_trade(Row(b)),
     direction        |-> "Bullish Break",
     range_low        |-> range_low(idx, n),
     range_high       |-> range_high(idx, n),
     range_start_time |-> Timestamp(Row(window_start(idx, n)).date),
     range_end_time   |-> Timestamp(Row(b).date),
     nrb_id           |-> id,
     nr_high          |-> Row(idx).high,
     nr_low           |-> Row(idx).low]

(***************************************************************************)
(* Daily refinement helpers                                                *)
(***************************************************************************)
\* mutant: the interval starts thirteen days before the weekly breakout date
daily_qs_TwoWeeks(q, weekly_breakout_ts) ==
    LET breakout_week_end_date == DateOfTimestamp(weekly_breakout_ts)
        week_start_date == breakout_week_end_date - 13
    IN SelectSeq(q, LAMBDA r : r.trade_date >= week_start_date
                               /\ r.trade_date <= breakout_week_end_date)

\* queryset.filter(trade_date__gte=week_start_date, trade_date__lte=breakout_week_end_date)
\*         .order_by("trade_date"), with week_start_date = end date - timedelta(days=6)
daily_qs(q, weekly_breakout_ts) ==
    LET breakout_week_end_date == DateOfTimestamp(weekly_breakout_ts)
        week_start_date == breakout_week_end_date - 6
    IN SelectSeq(q, LAMBDA r : r.trade_date >= week_start_date
                               /\ r.trade_date <= breakout_week_end_date)

\* mutant: a daily value equal to the resistance counts as a breakout
Exceeds_OrEqual(value, resistance) == value >= resistance

\* is this daily value a breakout above the resistance
Exceeds(value, resistance) == value > resistance

\* trade_date of the first row of the week whose close exceeds the resistance, else None
breakout_daily_date_price(q, resistance) ==
    LET hits == {k \in DOMAIN q : Exceeds(q[k].close, resistance)}
    IN IF hits = {} THEN None ELSE Some(q[MinOf(hits)].trade_date)

\* mutant: the loop over the daily rows does not stop at the first breakout
breakout_daily_date_parameter_Last(q, resistance) ==
    LET hits == {k \in DOMAIN q : Exceeds(q[k].value, resistance)}
    IN IF hits = {} THEN None ELSE Some(q[MaxOf(hits)].trade_date)

\* trade_date of the first row of the week whose series value exceeds the resistance, else None
breakout_daily_date_parameter(q, resistance) ==
    LET hits == {k \in DOMAIN q : Exceeds(q[k].value, resistance)}
    IN IF hits = {} THEN None ELSE Some(q[MinOf(hits)].trade_date)

\* mutant: the refiner moves the end of the regime box along with the time
Refined_MovesRangeEnd(trig, d) ==
    IF trig.direction # "Bullish Break" \/ d = None
    THEN trig
    ELSE [trig EXCEPT !.time = Timestamp(d[1]), !.range_end_time = Timestamp(d[1])]

\* the trigger after the refiner looked at it
Refined(trig, d) ==
    IF trig.direction # "Bullish Break" \/ d = None
    THEN trig
    ELSE [trig EXCEPT !.time = Timestamp(d[1])]

(***************************************************************************)
(* Initial states: one call, its arguments and the stored rows             *)
(***************************************************************************)
GPT == "get_pattern_triggers"
DETECT == "_detect_narrow_range_break_python"
NRB == "Narrow Range Break"

LocalsInit ==
    /\ i = 0
    /\ last_breakout_idx = -1
    /\ nrb_id = 1
    /\ result = <<>>
    /\ t = 0
    /\ rows = <<>>
    /\ last_used = -1
    /\ pattern_id = 1
    /\ verdict = "none"
    /\ call_no = 1
    /\ first_result = <<>>
    /\ success_rate = 0
    /\ legacy_nrb_lookback = NRB_LOOKBACK
    /\ markers = <<>>

\* get_pattern_triggers(scrip, "Narrow Range Break", _, _, weeks, series)
InitGpt ==
    /\ entry = GPT
    /\ pc = "entry"
    /\ pattern = NRB
    /\ weeks \in {Some(n) : n \in 1..MaxN}
    /\ weeks_given = TRUE
    /\ \/ /\ series = None
          /\ eod_rows \in DailyPriceInputs
          /\ param_rows = <<>>
       \/ /\ series = Some("ema21")
          /\ eod_rows = <<>>
          /\ param_rows \in DailyParamInputs
    /\ weekly_data = <<>>
    /\ nrb_lookback = 0
    /\ LocalsInit

\* one bar per week (Friday) for len weeks: high 3, low 2, and high 4 in week up (0-based)
SteadyPriceRows(len, up) ==
    Flatten([w \in 1..len |->
        PriceWeek(w - 1, << <<4, 2, IF w - 1 = up THEN 4 ELSE 3, 2, IF w - 1 = up THEN 4 ELSE 3>> >>)])
SteadyParamRows(len, up) ==
    Flatten([w \in 1..len |->
        ParamWeek(w - 1, IF w - 1 = up THEN << <<1, 2>>, <<4, 4>> >> ELSE << <<1, 2>>, <<4, 3>> >>)])

\* <<weeks of rows, week of the higher high>>: around NRB_LOOKBACK + 2 and WEEKS_DEFAULT + 2
SteadyCases ==
    { <<NRB_LOOKBACK + 1, NRB_LOOKBACK>>,
      <<NRB_LOOKBACK + 2, NRB_LOOKBACK>>,
      <<NRB_LOOKBACK + 3, NRB_LOOKBACK + 1>>,
      <<WEEKS_DEFAULT + 1, WEEKS_DEFAULT>>,
      <<WEEKS_DEFAULT + 2, WEEKS_DEFAULT>>,
      <<WEEKS_DEFAULT + 3, NRB_LOOKBACK>> }

\* get_pattern_triggers(scrip, "Narrow Range Break", _, _[, weeks][, series]) where
\* weeks is left out, None, 0 or negative
InitGptNoWeeks ==
    /\ entry = GPT
    /\ pc = "entry"
    /\ pattern = NRB
    /\ \/ weeks_given = FALSE /\ weeks = Some(WEEKS_DEFAULT)
       \/ weeks_given = TRUE /\ weeks \in {None, Some(0), Some(-1)}
    /\ \E case \in SteadyCases :
          \/ /\ series = None
             /\ eod_rows = SteadyPriceRows(case[1], case[2])
             /\ param_rows = <<>>
          \/ /\ series = Some("ema21")
             /\ eod_rows = <<>>
             /\ param_rows = SteadyParamRows(case[1], case[2])
    /\ weekly_data = <<>>
    /\ nrb_lookback = 0
    /\ LocalsInit

\* a weekly list whose only high above the first weeks' resistance comes late:
\* week 0 is <<3, 2>>, the last week <<4, 2>>, the weeks between <<2, 1>>
LateBreakout ==
    WeeklyFrom([k \in 1..(BREAKOUT_LOOKAHEAD_WEEKS + 3) |->
        IF k = 1 THEN <<3, 2>>
        ELSE IF k = BREAKOUT_LOOKAHEAD_WEEKS + 3 THEN <<4, 2>> ELSE <<2, 1>>])

\* _detect_narrow_range_break_python(weekly_data, nrb_lookback)
InitDetect ==
    /\ entry = DETECT
    /\ pc = "detect"
    /\ pattern = NRB
    /\ series = None
    /\ weeks = None
    /\ weeks_given = FALSE
    /\ eod_rows = <<>>
    /\ param_rows = <<>>
    /\ \E call \in (WeeklyInputs \X (1..MaxN)) \cup {<<ScenarioA, 4>>}
                      \cup {<<LateBreakout, 1>>, <<LateBreakout, 2>>} :
          /\ weekly_data = call[1]
          /\ nrb_lookback = call[2]
    /\ LocalsInit

Init == InitGpt \/ InitGptNoWeeks \/ InitDetect

(***************************************************************************)
(* Actions of the narrow-range path                                        *)
(***************************************************************************)
ScanLocals == <<i, last_breakout_idx, nrb_id>>
BowlLocals == <<rows, last_used, pattern_id, verdict>>
CallArgs == <<entry, pattern, series, weeks, weeks_given, eod_rows, param_rows,
              call_no, first_result, success_rate, legacy_nrb_lookback, markers>>

\* get_pattern_triggers, pattern "Narrow Range Break", price series
GptNarrowRangePrice ==
    /\ pc = "entry"
    /\ pattern = NRB
    /\ series_normalized \in PriceSeriesNames
    /\ LET weekly_qs == get_weekly_queryset(eod_rows) IN
       IF TooFewWeeks(Len(weekly_qs), nr_weeks) \/ weekly_qs = <<>>
       THEN /\ pc' = "done"
            /\ result' = <<>>
            /\ UNCHANGED <<weekly_data, nrb_lookback>>
       ELSE /\ pc' = "detect"
            /\ weekly_data' = WeeklyValues(weekly_qs)
            /\ nrb_lookback' = nr_weeks
            /\ UNCHANGED result
    /\ UNCHANGED <<CallArgs, ScanLocals, t, BowlLocals>>

\* get_pattern_triggers, pattern "Narrow Range Break", Parameter series
GptNarrowRangeParameter ==
    /\ pc = "entry"
    /\ pattern = NRB
    /\ series_normalized \notin PriceSeriesNames
    /\ series_normalized \in PARAM_FIELD_MAP
    /\ LET weekly_qs == param_weekly_qs(param_rows) IN
       IF TooFewWeeks(Len(weekly_qs), nr_weeks) \/ weekly_qs = <<>>
       THEN /\ pc' = "done"
            /\ result' = <<>>
            /\ UNCHANGED <<weekly_data, nrb_lookback>>
       ELSE /\ pc' = "detect"
            /\ weekly_data' = WeeklyValues(weekly_qs)
            /\ nrb_lookback' = nr_weeks
            /\ UNCHANGED result
    /\ UNCHANGED <<CallArgs, ScanLocals, t, BowlLocals>>

\* where the detector's return value goes
AfterDetect == IF entry = GPT THEN "refine" ELSE "done"

\* mutant: the regime counter and the cooldown watermark outlive the call
DetectBegin_CounterSurvives ==
    /\ pc = "detect"
    /\ IF DetectorTooShort(Len(weekly_data), nrb_lookback)
       THEN /\ pc' = AfterDetect
            /\ UNCHANGED ScanLocals
       ELSE /\ pc' = "scan"
            /\ i' = preceding_rows(nrb_lookback)
            /\ UNCHANGED <<last_breakout_idx, nrb_id>>
    /\ result' = <<>>
    /\ t' = 0
    /\ UNCHANGED <<CallArgs, weekly_data, nrb_lookback, BowlLocals>>

\* _detect_narrow_range_break_python up to the first loop iteration
DetectBegin ==
    /\ pc = "detect"
    /\ IF DetectorTooShort(Len(weekly_data), nrb_lookback)
       THEN /\ pc' = AfterDetect
            /\ UNCHANGED ScanLocals
       ELSE /\ pc' = "scan"
            /\ i' = preceding_rows(nrb_lookback)
            /\ last_breakout_idx' = -1
            /\ nrb_id' = 1
    /\ result' = <<>>
    /\ t' = 0
    /\ UNCHANGED <<CallArgs, weekly_data, nrb_lookback, BowlLocals>>

ScanFrame == UNCHANGED <<CallArgs, weekly_data, nrb_lookback, t, BowlLocals>>

\* loop iteration: i is still inside the cooldown
ScanCooldown ==
    /\ pc = "scan"
    /\ i < Len(weekly_data) - 1
    /\ InCooldown(i, last_breakout_idx, nrb_lookback)
    /\ i' = i + 1
    /\ UNCHANGED <<pc, last_breakout_idx, nrb_id, result>>
    /\ ScanFrame

\* loop iteration: week i is not the narrowest of its window
ScanNotNarrow ==
    /\ pc = "scan"
    /\ i < Len(weekly_data) - 1
    /\ ~InCooldown(i, last_breakout_idx, nrb_lookback)
    /\ ~IsNarrowWeek(i, nrb_lookback)
    /\ i' = i + 1
    /\ UNCHANGED <<pc, last_breakout_idx, nrb_id, result>>
    /\ ScanFrame

\* mutant: a narrow week without a breakout uses up a regime identifier
ScanNoBreakout_ConsumesId ==
    /\ pc = "scan"
    /\ i < Len(weekly_data) - 1
    /\ ~InCooldown(i, last_breakout_idx, nrb_lookback)
    /\ IsNarrowWeek(i, nrb_lookback)
    /\ breakout_idx(i, range_high(i, nrb_lookback)) = None
    /\ i' = i + 1
    /\ nrb_id' = nrb_id + 1
    /\ UNCHANGED <<pc, last_breakout_idx, result>>
    /\ ScanFrame

\* loop iteration: narrow week without a breakout in the lookahead
ScanNoBreakout ==
    /\ pc = "scan"
    /\ i < Len(weekly_data) - 1
    /\ ~InCooldown(i, last_breakout_idx, nrb_lookback)
    /\ IsNarrowWeek(i, nrb_lookback)
    /\ breakout_idx(i, range_high(i, nrb_lookback)) = None
    /\ i' = i + 1
    /\ UNCHANGED <<pc, last_breakout_idx, nrb_id, result>>
    /\ ScanFrame

\* loop iteration: narrow week with a breakout, a trigger is appended
ScanEmit ==
    /\ pc = "scan"
    /\ i < Len(weekly_data) - 1
    /\ ~InCooldown(i, last_breakout_idx, nrb_lookback)
    /\ IsNarrowWeek(i, nrb_lookback)
    /\ LET b == breakout_idx(i, range_high(i, nrb_lookback)) IN
       /\ b # None
       /\ result' = Append(result, NrbTrigger(i, nrb_lookback, b[1], nrb_id))
       /\ last_breakout_idx' = b[1]
    /\ nrb_id' = nrb_id + 1
    /\ i' = i + 1
    /\ UNCHANGED pc
    /\ ScanFrame

\* the loop is exhausted: return result
ScanReturn ==
    /\ pc = "scan"
    /\ i >= Len(weekly_data) - 1
    /\ pc' = AfterDetect
    /\ UNCHANGED <<ScanLocals, result>>
    /\ ScanFrame

\* _attach_daily_breakout_times_price: one iteration of "for t in triggers"
AttachDailyBreakoutTimesPrice ==
    /\ pc = "refine"
    /\ series_normalized \in PriceSeriesNames
    /\ t < Len(result)
    /\ LET trig == result[t + 1]
           q == daily_qs(eod_rows, trig.time)
       IN result' = [result EXCEPT
                        ![t + 1] = Refined(trig, breakout_daily_date_price(q, trig.range_high))]
    /\ t' = t + 1
    /\ UNCHANGED <<pc, CallArgs, weekly_data, nrb_lookback, ScanLocals, BowlLocals>>

\* _attach_daily_breakout_times_parameter: one iteration of "for t in triggers"
AttachDailyBreakoutTimesParameter ==
    /\ pc = "refine"
    /\ series_normalized \notin PriceSeriesNames
    /\ t < Len(result)
    /\ LET trig == result[t + 1]
           q == daily_qs(param_rows, trig.time)
       IN result' = [result EXCEPT
                        ![t + 1] = Refined(trig, breakout_daily_date_parameter(q, trig.range_high))]
    /\ t' = t + 1
    /\ UNCHANGED <<pc, CallArgs, weekly_data, nrb_lookback, ScanLocals, BowlLocals>>

\* mutant: triggers scoring below success_rate are dropped before the return
RefineReturn_FilteredByScore ==
    /\ pc = "refine"
    /\ t >= Len(result)
    /\ pc' = "done"
    /\ result' = SelectSeq(result, LAMBDA x : x.score >= success_rate)
    /\ UNCHANGED <<CallArgs, weekly_data, nrb_lookback, ScanLocals, t, BowlLocals>>

\* the refiner returns the (possibly empty) trigger list
RefineReturn ==
    /\ pc = "refine"
    /\ t >= Len(result)
    /\ pc' = "done"
    /\ UNCHANGED <<CallArgs, weekly_data, nrb_lookback, ScanLocals, result, t, BowlLocals>>

Next ==
    \/ GptNarrowRangePrice
    \/ GptNarrowRangeParameter
    \/ DetectBegin
    \/ ScanCooldown
    \/ ScanNotNarrow
    \/ ScanNoBreakout
    \/ ScanEmit
    \/ ScanReturn
    \/ AttachDailyBreakoutTimesPrice
    \/ AttachDailyBreakoutTimesParameter
    \/ RefineReturn

Spec == Init /\ [][Next]_vars

(***************************************************************************)
(* Observations shared by the properties of the narrow-range path          *)
(***************************************************************************)
\* number of weekly candles the stored rows of the call aggregate to
TotalWeeks ==
    IF series_normalized \in PriceSeriesNames
    THEN Len(get_weekly_queryset(eod_rows))
    ELSE Len(param_weekly_qs(param_rows))

\* index of the weekly candle dated at timestamp ts
WeekIndexAt(ts) ==
    CHOOSE k \in 0..(Len(weekly_data) - 1) : Timestamp(Row(k).date) = ts

\* weekly index of a trigger's breakout week and of the first week of its window
BreakoutIndexOf(trig) == WeekIndexAt(trig.range_end_time)
WindowStartOf(trig) == WeekIndexAt(trig.range_start_time)

\* monitored daily values dated at timestamp ts (close for price, the series value otherwise)
MonitoredAt(ts) ==
    IF series_normalized \in PriceSeriesNames
    THEN {eod_rows[k].close : k \in {j \in DOMAIN eod_rows : Timestamp(eod_rows[j].trade_date) = ts}}
    ELSE {param_rows[k].value : k \in {j \in DOMAIN param_rows : Timestamp(param_rows[j].trade_date) = ts}}

\* monitored daily values dated within the six days up to and including timestamp ts
MonitoredInWeekEnding(ts) ==
    IF series_normalized \in PriceSeriesNames
    THEN {eod_rows[k].close : k \in {j \in DOMAIN eod_rows :
            /\ eod_rows[j].trade_date >= DateOfTimestamp(ts) - 6
            /\ eod_rows[j].trade_date <= DateOfTimestamp(ts)}}
    ELSE {param_rows[k].value : k \in {j \in DOMAIN param_rows :
            /\ param_rows[j].trade_date >= DateOfTimestamp(ts) - 6
            /\ param_rows[j].trade_date <= DateOfTimestamp(ts)}}

\* get_pattern_triggers has returned the refined triggers
RefinedDone == entry = GPT /\ pc = "done"

C2_CooldownNonOverlap ==
    (pc \in {"scan", "refine", "done"} /\ weekly_data # <<>>) =>
    \A j \in 1..(Len(result) - 1) :
        LET s1 == WindowStartOf(result[j])
            b1 == BreakoutIndexOf(result[j])
            s2 == WindowStartOf(result[j + 1])
            w1 == s1..(s1 + nrb_lookback - 1)
            w2 == s2..(s2 + nrb_lookback - 1)
        IN /\ s2 > b1
           /\ w1 \cap w2 = {}
           /\ b1 \notin w2

\* two regimes were emitted by one scan
C2_Witness ==
    /\ pc = "done"
    /\ Len(result) >= 2
    /\ nrb_lookback >= 2

(***************************************************************************)
(* C3  Start of the next window                                            *)
(***************************************************************************)
\* C3 as stated: the later window's start index is >= the earlier breakout
\* index + n.
C3_Original ==
    (pc \in {"scan", "refine", "done"} /\ weekly_data # <<>>) =>
    \A j \in 1..(Len(result) - 1) :
        WindowStartOf(result[j + 1]) >= BreakoutIndexOf(result[j]) + nrb_lookback

\* C3 amended: the later regime's narrow week (the last index of its window)
\* is >= the earlier breakout index + n; its window start is >= the earlier
\* breakout index + 1.
C3_NextWindowAfterBreakout ==
    (pc \in {"scan", "refine", "done"} /\ weekly_data # <<>>) =>
    \A j \in 1..(Len(result) - 1) :
        LET b1 == BreakoutIndexOf(result[j])
            s2 == WindowStartOf(result[j + 1])
        IN /\ s2 + nrb_lookback - 1 >= b1 + nrb_lookback
           /\ s2 >= b1 + 1

\* a second regime whose window starts right after the earlier breakout week, n >= 2
C3_Witness ==
    /\ pc = "done"
    /\ nrb_lookback >= 2
    /\ Len(result) >= 2
    /\ WindowStartOf(result[2]) = BreakoutIndexOf(result[1]) + 1

(***************************************************************************)
(* C4  Breakout causality (value)                                          *)
(***************************************************************************)
\* C4 as stated: after refinement the daily bar dated at every trigger's time
\* has a monitored value strictly greater than the trigger's rangeHigh.
C4_Original ==
    RefinedDone =>
    \A j \in 1..Len(result) :
        /\ MonitoredAt(result[j].time) # {}
        /\ \A v \in MonitoredAt(result[j].time) : v > result[j].range_high

\* C4 amended: after refinement, for every trigger either the daily bar dated
\* at its time has a monitored value strictly greater than rangeHigh, or no
\* daily bar dated in [W-6, W] (W the weekly breakout date) has a monitored
\* value above rangeHigh and time is still W; on an indicator series the
\* first case always holds.
C4_BreakoutValue ==
    RefinedDone =>
    \A j \in 1..Len(result) :
        LET trig == result[j]
            above == \A v \in MonitoredAt(trig.time) : v > trig.range_high
        IN /\ MonitoredAt(trig.time) # {}
           /\ \/ above
              \/ /\ trig.time = trig.range_end_time
                 /\ \A v \in MonitoredInWeekEnding(trig.range_end_time) :
                        v <= trig.range_high
           /\ series_normalized \notin PriceSeriesNames => above

\* after refinement, a price trigger was moved to a daily bar before the weekly
\* breakout date
C4_Witness ==
    /\ RefinedDone
    /\ series_normalized \in PriceSeriesNames
    /\ \E j \in 1..Len(result) : result[j].time < result[j].range_end_time

(***************************************************************************)
(* C5  Breakout causality (time)                                           *)
(***************************************************************************)
\* C5: every narrow-range trigger, before and after daily refinement and for
\* every n >= 1, has rangeStartTime < time <= rangeEndTime.
C5_BreakoutTime ==
    \A j \in 1..Len(result) :
        /\ result[j].range_start_time < result[j].time
        /\ result[j].time <= result[j].range_end_time

(***************************************************************************)
(* C6  Scenario A (output)                                                 *)
(***************************************************************************)
ScenarioARan == entry = DETECT /\ pc = "done" /\ weekly_data = ScenarioA /\ nrb_lookback = 4

\* C6: on Scenario A with n = 4 the detector returns exactly one trigger, with
\* rangeHigh = 10 and weekly time equal to week 9's date.
C6_ScenarioAOutput ==
    ScenarioARan =>
        /\ Len(result) = 1
        /\ result[1].range_high = 10
        /\ result[1].time = Timestamp(ScenarioA[10].date)

\* the detector returned on Scenario A
C6_Witness == ScenarioARan /\ Len(result) = 1

(***************************************************************************)
(* C7  Scenario A (regime)                                                 *)
(***************************************************************************)
\* C7 as stated: the single regime of Scenario A has its narrow week at index 6
\* and window [3..6]: nrHigh = 9, nrLow = 8, rangeStartTime = week 3's date.
C7_Original ==
    ScenarioARan =>
        /\ Len(result) = 1
        /\ result[1].nr_high = 9
        /\ result[1].nr_low = 8
        /\ result[1].range_start_time = Timestamp(ScenarioA[4].date)

\* C7 amended: the single regime of Scenario A has its narrow week at index 3
\* (spread 5 ties the window minimum) and window [0..3]: nrHigh = 10,
\* nrLow = 5, rangeStartTime = week 0's date; week 6 lies inside the cooldown.
C7_ScenarioARegime ==
    ScenarioARan =>
        /\ Len(result) = 1
        /\ result[1].nr_high = 10
        /\ result[1].nr_low = 5
        /\ result[1].range_start_time = Timestamp(ScenarioA[1].date)
        /\ WindowStartOf(result[1]) + nrb_lookback - 1 = 3
        /\ InCooldown(6, BreakoutIndexOf(result[1]), nrb_lookback)

\* the detector returned on Scenario A with a regime whose narrow week is week 3
C7_Witness ==
    /\ ScenarioARan
    /\ Len(result) = 1
    /\ result[1].nr_high = ScenarioA[4].high
    /\ result[1].nr_low = ScenarioA[4].low

(***************************************************************************)
(* Bowl: thresholds and explored inputs                                    *)
(***************************************************************************)
BOWL_MIN_DURATION_DAYS == 60
BOWL_LOCAL_MIN_WINDOW_DAYS == 2
BOWL_LEFT_LOOKBACK_MIN_DAYS == 20
BOWL_LEFT_LOOKBACK_MAX_DAYS == 90
BOWL_RIGHT_LOOKAHEAD_MIN_DAYS == 20
BOWL_RIGHT_LOOKAHEAD_MAX_DAYS == 90
\* BOWL_MIN_DEPTH = 0.06 and BOWL_RIM_TOLERANCE = 0.30, in hundredths
BOWL_MIN_DEPTH == 6
BOWL_RIM_TOLERANCE == 30
BOWL_MIN_TOTAL_DAYS == 40
BOWL_BREAKOUT_LOOKAHEAD_DAYS == 120

MaxBowlRows == 176      \* rows of the longest Parameter series explored

\* trade date of the k-th trading day (Monday to Friday, 0-based)
TradingDate(k) == 7 * (k \div 5) + (k % 5)

\* ema50 of a zigzag through knots 25 rows apart, then a slow decline
\* knots: <<rim, bottom, rim, bottom, rim>> at rows 0, 25, 50, 75, 100
ZigzagEma(knots, k) ==
    IF k >= 100
    THEN knots[5] - (k - 100)
    ELSE LET seg == (k \div 25) + 1
             off == k % 25
         IN knots[seg] + ((knots[seg + 1] - knots[seg]) * off) \div 25

\* the closing price follows the ema except on the spike rows
ZigzagClose(knots, spikes, k) == IF k \in spikes THEN 5000 ELSE ZigzagEma(knots, k)

BowlKnots ==
    { <<h0, b1, h1, b2, h2>> :
        h0 \in {1000, 1500}, b1 \in {925, 950}, h1 \in {1000, 1400},
        b2 \in {925, 950}, h2 \in {1000, 1400} }
BowlSpikes == SUBSET {60, 110, 172}
BowlLengths == {BOWL_MIN_DURATION_DAYS * 2 - 1, MaxBowlRows}

BowlSeries(knots, spikes, len) ==
    [k \in 1..len |->
        ParamRow(TradingDate(k - 1), ZigzagEma(knots, k - 1), ZigzagClose(knots, spikes, k - 1))]

\* a strictly increasing ema50 and a constant one, the close one above the ema
RisingSeries(len) == [k \in 1..len |-> ParamRow(TradingDate(k - 1), 1000 + k, 1001 + k)]
ConstantSeries(len) == [k \in 1..len |-> ParamRow(TradingDate(k - 1), 1000, 1001)]

\* a bowl at the left edge: ema50 falls from 1000 at row 0 to 900 at row 20,
\* rises back to 1000 at row 40 and declines by one a row afterwards; the close
\* follows the ema and spikes at row 50
EdgeEma(k) ==
    IF k <= 20 THEN 1000 - 5 * k
    ELSE IF k <= 40 THEN 900 + 5 * (k - 20)
    ELSE 1000 - (k - 40)
EdgeSeries(len) ==
    [k \in 1..len |->
        ParamRow(TradingDate(k - 1), EdgeEma(k - 1), IF k - 1 = 50 THEN 5000 ELSE EdgeEma(k - 1))]

BowlInputs ==
    { BowlSeries(knots, spikes, len) :
        knots \in BowlKnots, spikes \in BowlSpikes, len \in BowlLengths }
    \cup { RisingSeries(len) : len \in BowlLengths }
    \cup { ConstantSeries(len) : len \in BowlLengths }
    \cup { EdgeSeries(MaxBowlRows) }
    \cup { <<>> }

(***************************************************************************)
(* _detect_bowl_pattern                                                    *)
(***************************************************************************)
\* rows[k] of the bowl detector (0-based)
BRow(k) == rows[k + 1]

\* the normalised rows built from the queryset; Extract("trade_date", "epoch")
BowlRows(q) ==
    [k \in 1..Len(q) |->
        [date      |-> q[k].trade_date,
         timestamp |-> Timestamp(q[k].trade_date),
         ema       |-> q[k].value,
         close_f   |-> q[k].closing_price]]

\* mutant: the length guard lets one row less through
BowlTooFewRows_OneLess(n) == n < BOWL_MIN_DURATION_DAYS * 2 - 1

\* if n < BOWL_MIN_DURATION_DAYS * 2: return []
BowlTooFewRows(n) == n < BOWL_MIN_DURATION_DAYS * 2

\* clamp(lo, hi) = max(lo, 0), min(hi, n - 1)
clamp(lo, hi) ==
    << IF lo > 0 THEN lo ELSE 0,
       IF hi < Len(rows) - 1 THEN hi ELSE Len(rows) - 1 >>

\* mutant: the last-consumed pointer is never consulted
Consumed_Never(idx, lu) == FALSE

\* if i <= last_used: continue
Consumed(idx, lu) == idx <= lu

\* mutant: every index counts as a local minimum
is_local_min_Unchecked(idx) == TRUE

\* all(rows[j]["ema"] > ema_i for j in range(i - 2, i + 3) if j != i)
is_local_min(idx) ==
    \A j \in (idx - BOWL_LOCAL_MIN_WINDOW_DAYS)..(idx + BOWL_LOCAL_MIN_WINDOW_DAYS) :
        j # idx => BRow(j).ema > BRow(idx).ema

left_window(idx) ==
    clamp(idx - BOWL_LEFT_LOOKBACK_MAX_DAYS, idx - BOWL_LEFT_LOOKBACK_MIN_DAYS)
right_window(idx) ==
    clamp(idx + BOWL_RIGHT_LOOKAHEAD_MIN_DAYS, idx + BOWL_RIGHT_LOOKAHEAD_MAX_DAYS)

\* if left_end <= left_start or right_end <= right_start: continue
NoRimWindow(idx) ==
    \/ left_window(idx)[2] <= left_window(idx)[1]
    \/ right_window(idx)[2] <= right_window(idx)[1]

\* start + max(range(len(slice)), key=ema): the first index of the largest ema in [lo, hi]
ArgMaxEma(lo, hi) ==
    MinOf({k \in lo..hi : \A j \in lo..hi : BRow(j).ema <= BRow(k).ema})

left_idx(idx) == ArgMaxEma(left_window(idx)[1], left_window(idx)[2])
right_idx(idx) == ArgMaxEma(right_window(idx)[1], right_window(idx)[2])
left_ema(idx) == BRow(left_idx(idx)).ema
right_ema(idx) == BRow(right_idx(idx)).ema

\* mutant: the span is measured from the bottom to the right rim
total_days_FromBottom(idx) == BRow(right_idx(idx)).date - BRow(idx).date

\* total_days = (rows[right_idx]["date"] - rows[left_idx]["date"]).days
total_days(idx) == BRow(right_idx(idx)).date - BRow(left_idx(idx)).date

\* depth = (rim - ema_i) / rim; depth < BOWL_MIN_DEPTH, for a positive rim
TooShallowSide(rim, bottom) == (rim - bottom) * 100 < BOWL_MIN_DEPTH * rim

\* if depth_left < BOWL_MIN_DEPTH or depth_right < BOWL_MIN_DEPTH: continue
TooShallow(idx) ==
    \/ TooShallowSide(left_ema(idx), BRow(idx).ema)
    \/ TooShallowSide(right_ema(idx), BRow(idx).ema)

\* mutant: the rim symmetry check is missing
Asymmetric_Unchecked(l, r) == FALSE

\* if min(l, r) / max(l, r) < (1.0 - BOWL_RIM_TOLERANCE): continue, for positive rims
Asymmetric(l, r) ==
    (IF l < r THEN l ELSE r) * 100 < (100 - BOWL_RIM_TOLERANCE) * (IF l < r THEN r ELSE l)

\* rim_level = max(left_ema, right_ema)
rim_level(idx) ==
    IF left_ema(idx) > right_ema(idx) THEN left_ema(idx) ELSE right_ema(idx)

\* mutant: the breakout search runs to the end of the series
breakout_last_Unbounded(ridx) == Len(rows) - 1

\* last index of range(right_idx + 1, min(n - 1, right_idx + LOOKAHEAD) + 1)
breakout_last(ridx) ==
    IF Len(rows) - 1 < ridx + BOWL_BREAKOUT_LOOKAHEAD_DAYS
    THEN Len(rows) - 1 ELSE ridx + BOWL_BREAKOUT_LOOKAHEAD_DAYS

\* mutant: a close equal to the rim level confirms the bowl
breakout_OrEqual(idx) ==
    LET hits == {k \in (right_idx(idx) + 1)..breakout_last(right_idx(idx)) :
                    BRow(k).close_f >= rim_level(idx)}
    IN IF hits = {} THEN None ELSE Some(MinOf(hits))

\* first k after the right rim with rows[k]["close_f"] > rim_level, else None
breakout(idx) ==
    LET hits == {k \in (right_idx(idx) + 1)..breakout_last(right_idx(idx)) :
                    BRow(k).close_f > rim_level(idx)}
    IN IF hits = {} THEN None ELSE Some(MinOf(hits))

\* which check of the loop body, after the local-minimum test, rejects candidate idx
ShapeVerdict(idx) ==
    IF NoRimWindow(idx) THEN "no_rims"
    ELSE IF total_days(idx) < BOWL_MIN_TOTAL_DAYS THEN "too_short"
    ELSE IF TooShallow(idx) THEN "too_shallow"
    ELSE IF Asymmetric(left_ema(idx), right_ema(idx)) THEN "asymmetric"
    ELSE "ok"

\* mutant: the bottom trigger is appended before the left-rim trigger
BowlTriggers_BottomFirst(idx, id) ==
    << [time |-> BRow(idx).timestamp, score |-> 1, pattern_id |-> id],
       [time |-> BRow(left_idx(idx)).timestamp, score |-> 1, pattern_id |-> id],
       [time |-> BRow(right_idx(idx)).timestamp, score |-> 1, pattern_id |-> id] >>

\* the three dicts appended for one bowl
BowlTriggers(idx, id) ==
    << [time |-> BRow(left_idx(idx)).timestamp, score |-> 1, pattern_id |-> id],
       [time |-> BRow(idx).timestamp, score |-> 1, pattern_id |-> id],
       [time |-> BRow(right_idx(idx)).timestamp, score |-> 1, pattern_id |-> id] >>

(***************************************************************************)
(* Initial states and actions of the bowl path                             *)
(***************************************************************************)
\* get_pattern_triggers(scrip, "Bowl", _, _)
InitBowl ==
    /\ entry = GPT
    /\ pc = "entry"
    /\ pattern = "Bowl"
    /\ series = None
    /\ weeks = None
    /\ weeks_given = TRUE
    /\ eod_rows = <<>>
    /\ param_rows \in BowlInputs
    /\ weekly_data = <<>>
    /\ nrb_lookback = 0
    /\ LocalsInit

NrLocals == <<weekly_data, nrb_lookback, last_breakout_idx, nrb_id, t>>

\* get_pattern_triggers, pattern "Bowl": _detect_bowl_pattern up to the first iteration
GptBowl ==
    /\ pc = "entry"
    /\ pattern = "Bowl"
    /\ rows' = BowlRows(param_rows)
    /\ IF BowlTooFewRows(Len(param_rows))
       THEN /\ pc' = "done"
            /\ UNCHANGED <<i, last_used, pattern_id>>
       ELSE /\ pc' = "bowl"
            /\ i' = BOWL_LOCAL_MIN_WINDOW_DAYS
            /\ last_used' = -1
            /\ pattern_id' = 1
    /\ result' = <<>>
    /\ verdict' = "none"
    /\ UNCHANGED <<CallArgs, NrLocals>>

InBowlLoop == pc = "bowl" /\ i < Len(rows) - BOWL_LOCAL_MIN_WINDOW_DAYS

BowlContinue ==
    /\ i' = i + 1
    /\ UNCHANGED <<pc, rows, last_used, pattern_id, result, CallArgs, NrLocals>>

\* loop iteration: i is at or before the last consumed breakout
BowlSkipConsumed ==
    /\ InBowlLoop
    /\ Consumed(i, last_used)
    /\ verdict' = "consumed"
    /\ BowlContinue

\* loop iteration: i is no local minimum
BowlNotLocalMin ==
    /\ InBowlLoop
    /\ ~Consumed(i, last_used)
    /\ ~is_local_min(i)
    /\ verdict' = "not_local_min"
    /\ BowlContinue

\* loop iteration: the rim, duration, depth or symmetry check rejects the candidate
BowlRejectShape ==
    /\ InBowlLoop
    /\ ~Consumed(i, last_used)
    /\ is_local_min(i)
    /\ ShapeVerdict(i) # "ok"
    /\ verdict' = ShapeVerdict(i)
    /\ BowlContinue

\* mutant: a valid shape without a breakout consumes the bars up to its right rim
BowlNoBreakout_Consumes ==
    /\ InBowlLoop
    /\ ~Consumed(i, last_used)
    /\ is_local_min(i)
    /\ ShapeVerdict(i) = "ok"
    /\ breakout(i) = None
    /\ verdict' = "no_breakout"
    /\ last_used' = right_idx(i)
    /\ i' = i + 1
    /\ UNCHANGED <<pc, rows, pattern_id, result, CallArgs, NrLocals>>

\* loop iteration: a valid shape without a breakout in the lookahead
BowlNoBreakout ==
    /\ InBowlLoop
    /\ ~Consumed(i, last_used)
    /\ is_local_min(i)
    /\ ShapeVerdict(i) = "ok"
    /\ breakout(i) = None
    /\ verdict' = "no_breakout"
    /\ BowlContinue

\* loop iteration: a confirmed bowl, three triggers are appended
BowlEmit ==
    /\ InBowlLoop
    /\ ~Consumed(i, last_used)
    /\ is_local_min(i)
    /\ ShapeVerdict(i) = "ok"
    /\ breakout(i) # None
    /\ last_used' = breakout(i)[1]
    /\ result' = result \o BowlTriggers(i, pattern_id)
    /\ pattern_id' = pattern_id + 1
    /\ verdict' = "emit"
    /\ i' = i + 1
    /\ UNCHANGED <<pc, rows, CallArgs, NrLocals>>

\* the loop is exhausted: return result
BowlReturn ==
    /\ pc = "bowl"
    /\ i >= Len(rows) - BOWL_LOCAL_MIN_WINDOW_DAYS
    /\ pc' = "done"
    /\ UNCHANGED <<i, rows, last_used, pattern_id, verdict, result, CallArgs, NrLocals>>

NextBowl ==
    \/ GptBowl
    \/ BowlSkipConsumed
    \/ BowlNotLocalMin
    \/ BowlRejectShape
    \/ BowlNoBreakout
    \/ BowlEmit
    \/ BowlReturn

SpecBowl == InitBowl /\ [][NextBowl]_vars

(***************************************************************************)
(* get_pattern_triggers: the branches that answer without detecting        *)
(***************************************************************************)
\* four weeks of rows in both tables, for calls that name no usable series or pattern
SomeEodRows == Flatten([w \in 1..4 |-> PriceWeek(w - 1, << <<0, 2, 3, 2, 2>>, <<3, 2, 3, 2, 3>> >>)])
SomeParamRows == Flatten([w \in 1..4 |-> ParamWeek(w - 1, << <<0, 2>>, <<3, 3>> >>)])

\* get_pattern_triggers(scrip, pattern, _, _, weeks, series) with other spellings
InitOther ==
    /\ entry = GPT
    /\ pc = "entry"
    /\ \/ /\ pattern \in {"", "bowl", "Cup and Handle"}
          /\ series \in {None, Some("ema21")}
       \/ /\ pattern = NRB
          /\ series \in {Some("volume"), Some("Volume"), Some("ema100"), Some(" EMA21 "), Some("Close")}
    /\ weeks \in {Some(n) : n \in 1..MaxN}
    /\ weeks_given = TRUE
    /\ eod_rows \in {<<>>, SomeEodRows}
    /\ param_rows \in {<<>>, SomeParamRows}
    /\ weekly_data = <<>>
    /\ nrb_lookback = 0
    /\ LocalsInit

\* get_pattern_triggers, pattern "Narrow Range Break", series not in PARAM_FIELD_MAP
GptUnknownSeries ==
    /\ pc = "entry"
    /\ pattern = NRB
    /\ series_normalized \notin PriceSeriesNames
    /\ series_normalized \notin PARAM_FIELD_MAP
    /\ pc' = "done"
    /\ result' = <<>>
    /\ UNCHANGED <<CallArgs, weekly_data, nrb_lookback, ScanLocals, t, BowlLocals>>

\* get_pattern_triggers, neither "Narrow Range Break" nor "Bowl": the final return []
GptUnknownPattern ==
    /\ pc = "entry"
    /\ pattern # NRB
    /\ pattern # "Bowl"
    /\ pc' = "done"
    /\ result' = <<>>
    /\ UNCHANGED <<CallArgs, weekly_data, nrb_lookback, ScanLocals, t, BowlLocals>>

\* every call of the detection core
InitCore == Init \/ InitBowl \/ InitOther

NextCore ==
    \/ Next
    \/ NextBowl
    \/ GptUnknownSeries
    \/ GptUnknownPattern

SpecCore == InitCore /\ [][NextCore]_vars

(***************************************************************************)
(* The same call made twice                                                *)
(***************************************************************************)
\* a few Bowl series of full length, for the repeated call
InitBowlFew ==
    /\ InitBowl
    /\ \E h1 \in {1000, 1400}, b2 \in {925, 950}, spikes \in BowlSpikes :
          param_rows = BowlSeries(<<1000, 925, h1, b2, 1000>>, spikes, MaxBowlRows)

\* the caller repeats its call with the same arguments on the same stored rows;
\* nothing but the callee's own initialisation resets what the first call left
CallAgain ==
    /\ pc = "done"
    /\ call_no = 1
    /\ call_no' = 2
    /\ first_result' = result
    /\ pc' = IF entry = DETECT THEN "detect" ELSE "entry"
    /\ UNCHANGED <<entry, pattern, series, weeks, weeks_given, eod_rows, param_rows,
                   weekly_data, nrb_lookback, ScanLocals, result, t, BowlLocals,
                   success_rate, legacy_nrb_lookback, markers>>

InitTwice == InitGpt \/ InitDetect \/ InitBowlFew

NextTwice ==
    \/ Next
    \/ NextBowl
    \/ CallAgain

SpecTwice == InitTwice /\ [][NextTwice]_vars

(***************************************************************************)
(* Observations shared by the properties of the bowl path                  *)
(***************************************************************************)
\* number of bowls in result
BowlCount == Len(result) \div 3

\* row index of the bar whose timestamp is ts
BowlIndexAt(ts) == CHOOSE k \in 0..(Len(rows) - 1) : BRow(k).timestamp = ts

\* row indices of the left rim, bottom and right rim of the p-th emitted bowl
LeftRimOf(p) == BowlIndexAt(result[3 * p - 2].time)
BottomOf(p) == BowlIndexAt(result[3 * p - 1].time)
RightRimOf(p) == BowlIndexAt(result[3 * p].time)

\* first bar after the p-th bowl's right rim, within 120 positions, whose raw
\* close is above both rims: the bowl's breakout index
BreakoutOf(p) ==
    LET lvl == IF BRow(LeftRimOf(p)).ema > BRow(RightRimOf(p)).ema
               THEN BRow(LeftRimOf(p)).ema ELSE BRow(RightRimOf(p)).ema
    IN MinOf({k \in (RightRimOf(p) + 1)..(Len(rows) - 1) :
                /\ k <= RightRimOf(p) + BOWL_BREAKOUT_LOOKAHEAD_DAYS
                /\ BRow(k).close_f > lvl})

BowlRunning == pattern = "Bowl" /\ pc \in {"bowl", "done"} /\ rows # <<>>

(***************************************************************************)
(* C8  Bowl non-overlap                                                    *)
(***************************************************************************)
\* C8 as stated: for consecutively emitted bowls the later bowl's left-rim
\* index is strictly greater than the earlier bowl's breakout index.
C8_Original ==
    BowlRunning =>
    \A p \in 1..(BowlCount - 1) : LeftRimOf(p + 1) > BreakoutOf(p)

\* C8 amended: for consecutively emitted bowls the later bowl's bottom index
\* is strictly greater than the earlier bowl's breakout index (and so are its
\* right rim and breakout); the later left rim may lie at or before the
\* earlier breakout, so the spans [leftRimIndex, breakoutIndex] can overlap.
C8_BottomAfterBreakout ==
    BowlRunning =>
    \A p \in 1..(BowlCount - 1) :
        /\ BottomOf(p + 1) > BreakoutOf(p)
        /\ RightRimOf(p + 1) > BreakoutOf(p)
        /\ BreakoutOf(p + 1) > BreakoutOf(p)

\* two bowls were emitted and the later left rim is not after the earlier breakout
C8_Witness ==
    /\ BowlRunning
    /\ pc = "done"
    /\ BowlCount >= 2
    /\ LeftRimOf(2) <= BreakoutOf(1)
    /\ BottomOf(2) > BreakoutOf(1)

(***************************************************************************)
(* C9  Bowl symmetry and depth bound                                       *)
(***************************************************************************)
\* C9: every emitted bowl has min(leftRim,rightRim)/max(leftRim,rightRim) >= 0.70
\* and (leftRim-bottom)/leftRim >= 0.06 and (rightRim-bottom)/rightRim >= 0.06,
\* the values taken at the emitted left-rim, bottom and right-rim bars.
C9_SymmetryAndDepth ==
    BowlRunning =>
    \A p \in 1..BowlCount :
        LET l == BRow(LeftRimOf(p)).ema
            r == BRow(RightRimOf(p)).ema
            b == BRow(BottomOf(p)).ema
            lo == IF l < r THEN l ELSE r
            hi == IF l < r THEN r ELSE l
        IN /\ l > 0 /\ r > 0
           /\ lo * 100 >= 70 * hi
           /\ (l - b) * 100 >= 6 * l
           /\ (r - b) * 100 >= 6 * r

\* a bowl with unequal rims was emitted
C9_Witness ==
    /\ BowlRunning
    /\ BowlCount >= 1
    /\ BRow(LeftRimOf(1)).ema # BRow(RightRimOf(1)).ema

(***************************************************************************)
(* C10  Scenario D: a valid shape without a breakout                       *)
(***************************************************************************)
\* candidate idx passes the local-minimum, rim, duration, depth and symmetry checks
ValidShapeAt(idx) ==
    /\ idx >= BOWL_LOCAL_MIN_WINDOW_DAYS
    /\ idx < Len(rows) - BOWL_LOCAL_MIN_WINDOW_DAYS
    /\ is_local_min(idx)
    /\ ShapeVerdict(idx) = "ok"

\* no bar in the up-to-120-bar lookahead after the right rim closes above both rims
NoBarAboveRims(idx) ==
    \A k \in (right_idx(idx) + 1)..(Len(rows) - 1) :
        k <= right_idx(idx) + 120 => BRow(k).close_f <= rim_level(idx)

\* C10: when the scan processes a candidate that passes every shape check but
\* has no bar above the rims within the lookahead, no trigger is emitted, the
\* last-consumed pointer and the next patternId are unchanged and the scan
\* continues with the next index after the bottom.
C10_ScenarioD ==
    [][(pc = "bowl" /\ i > last_used /\ ValidShapeAt(i) /\ NoBarAboveRims(i)) =>
          /\ result' = result
          /\ last_used' = last_used
          /\ pattern_id' = pattern_id
          /\ i' = i + 1
          /\ pc' = "bowl"]_vars

\* the scan has just stepped over such a candidate
C10_Witness ==
    /\ pc = "bowl"
    /\ i - 1 > last_used
    /\ i - 1 >= BOWL_LOCAL_MIN_WINDOW_DAYS
    /\ ValidShapeAt(i - 1)
    /\ NoBarAboveRims(i - 1)

(***************************************************************************)
(* C11  Local-minimum test                                                 *)
(***************************************************************************)
\* the indicator value at row k is strictly below the four other values in [k-2, k+2]
StrictlyBelowNeighbours(k) ==
    /\ k - 2 >= 0
    /\ k + 2 <= Len(rows) - 1
    /\ \A j \in {k - 2, k - 1, k + 1, k + 2} : BRow(k).ema < BRow(j).ema

\* C11: every bottom emitted by the bowl detector has an indicator value
\* strictly less than each of the four other values in [i-2, i+2]; a series
\* without such an index (strictly increasing, constant), whatever its length,
\* yields the empty list.
C11_LocalMinimum ==
    BowlRunning =>
        /\ \A p \in 1..BowlCount : StrictlyBelowNeighbours(BottomOf(p))
        /\ (\A k \in 0..(Len(rows) - 1) : ~StrictlyBelowNeighbours(k)) => result = <<>>

\* the scan of a strictly increasing series of at least 120 rows has returned
C11_Witness ==
    /\ BowlRunning
    /\ pc = "done"
    /\ Len(rows) >= 2 * BOWL_MIN_DURATION_DAYS
    /\ \A k \in 1..(Len(rows) - 1) : BRow(k - 1).ema < BRow(k).ema
    /\ result = <<>>

(***************************************************************************)
(* C12  Empty result as signal                                             *)
(***************************************************************************)
\* the rows get_pattern_triggers reads for this call
RowsRead ==
    IF pattern = NRB /\ series_normalized \in PriceSeriesNames THEN eod_rows ELSE param_rows

\* the call names an unknown pattern or an unrecognised narrow-range series, the
\* instrument has no rows, or the Bowl series has fewer than 120 rows
NothingToDetect ==
    \/ pattern \notin {NRB, "Bowl"}
    \/ /\ pattern = NRB
       /\ series_normalized \notin {"", "price", "close", "closing_price",
                                    "ema21", "ema50", "ema200", "rsc30", "rsc500"}
    \/ RowsRead = <<>>
    \/ pattern = "Bowl" /\ Len(param_rows) < 120

\* C12: get_pattern_triggers returns the empty list, without raising, for an
\* unknown pattern name, for an unrecognised narrow-range series name, for an
\* instrument with no rows, and for Bowl on fewer than 120 indicator rows: the
\* call's first step is its return, with the empty list.
C12_EmptyResultAsSignal ==
    [][(pc = "entry" /\ entry = GPT /\ NothingToDetect) =>
          (pc' = "done" /\ result' = <<>>)]_vars

\* a Bowl call on a non-empty series of fewer than 120 rows has returned
C12_Witness ==
    /\ pc = "done"
    /\ pattern = "Bowl"
    /\ Len(param_rows) > 0
    /\ Len(param_rows) < 120
    /\ result = <<>>

(***************************************************************************)
(* C13  Trigger times are dates of input bars                              *)
(***************************************************************************)
\* the dates of the bars handed to the call
InputDates ==
    IF entry = DETECT
    THEN {weekly_data[k].date : k \in DOMAIN weekly_data}
    ELSE {RowsRead[k].trade_date : k \in DOMAIN RowsRead}

\* C13: the time of every trigger in the list (narrow-range: as emitted by the
\* weekly scan and after daily refinement; bowl: left rim, bottom and right
\* rim) is the timestamp of the date of a bar present in the input series of
\* the call; none is a date without a bar.
C13_TimesAreBarDates ==
    \A j \in 1..Len(result) :
        \E d \in InputDates : result[j].time = Timestamp(d)

\* an indicator-series trigger was moved by the refiner to an earlier daily bar
C13_Witness ==
    /\ RefinedDone
    /\ pattern = NRB
    /\ series_normalized \in PARAM_FIELD_MAP
    /\ \E j \in 1..Len(result) : result[j].time # result[j].range_end_time

(***************************************************************************)
(* C14  Default window size                                                *)
(***************************************************************************)
\* the caller supplied no positive window size
NoPositiveWeeks == ~weeks_given \/ weeks = None \/ weeks[1] <= 0

\* C14: when the caller of get_pattern_triggers does not supply a positive
\* window size (weeks omitted, None, 0 or negative), narrow-range detection
\* runs with n = 7: on at least 7 + 2 weekly candles the detector is called
\* with window size 7.
C14_DefaultWindow ==
    (/\ entry = GPT
     /\ pattern = NRB
     /\ pc # "entry"
     /\ NoPositiveWeeks
     /\ TotalWeeks >= 7 + 2) => nrb_lookback = 7

(***************************************************************************)
(* C15  Determinism                                                        *)
(***************************************************************************)
\* C15: a second invocation of the detection core (narrow-range detection
\* followed by refinement, or bowl detection) on the same input sequences and
\* parameters returns the trigger list the first one returned, regimeId and
\* patternId numbering included: no counter or watermark survives a call.
C15_Determinism ==
    (call_no = 2 /\ pc = "done") => result = first_result

\* the repeated call has returned at least two regimes
C15_Witness ==
    /\ call_no = 2
    /\ pc = "done"
    /\ entry = GPT
    /\ pattern = NRB
    /\ Len(result) >= 2
    /\ result[2].nrb_id = 2

(***************************************************************************)
(* C16  First breakout within the lookahead                                *)
(***************************************************************************)
\* the narrow week of a trigger: the last week of its window
NarrowIndexOf(trig) == WindowStartOf(trig) + nrb_lookback - 1

\* the weeks after week idx in which a breakout of week idx is looked for
WeeksAhead(idx) ==
    {j \in 0..(Len(weekly_data) - 1) : idx < j /\ j <= idx + 12}

\* every emitted trigger's breakout week is the first of the 12 weeks after its
\* narrow week whose high is above the resistance
BreakoutIsFirstAhead ==
    (pc \in {"scan", "refine", "done"} /\ weekly_data # <<>>) =>
    \A j \in 1..Len(result) :
        LET idx == NarrowIndexOf(result[j])
            k == BreakoutIndexOf(result[j])
        IN /\ k \in WeeksAhead(idx)
           /\ Row(k).high > result[j].range_high
           /\ \A m \in WeeksAhead(idx) : m < k => Row(m).high <= result[j].range_high

\* a loop step at a qualifying narrow week without a high above the resistance
\* in the weeks ahead emits nothing
NoBreakoutAheadNoTrigger ==
    (/\ pc = "scan"
     /\ i < Len(weekly_data) - 1
     /\ ~(last_breakout_idx # -1 /\ i < last_breakout_idx + nrb_lookback)
     /\ \A j \in (i - nrb_lookback + 1)..i : Spread(i) <= Spread(j)
     /\ \A m \in WeeksAhead(i) :
            \A j \in (i - nrb_lookback + 1)..i : Row(m).high <= Row(j).high)
    => (result' = result /\ nrb_id' = nrb_id /\ last_breakout_idx' = last_breakout_idx)

\* C16: for every emitted narrow-range trigger with narrow week i and weekly
\* breakout index k, i < k <= i+12, high(k) > resistance and every week j with
\* i < j < k has high(j) <= resistance; a qualifying narrow week whose next
\* min(12, len-1-i) weeks all have high <= resistance emits nothing.
C16_FirstBreakoutWithinLookahead ==
    []BreakoutIsFirstAhead /\ [][NoBreakoutAheadNoTrigger]_vars

\* a trigger whose breakout week is the twelfth week after its narrow week, with
\* an earlier qualifying week passed over although the same high came later
C16_Witness ==
    /\ pc = "done"
    /\ weekly_data = LateBreakout
    /\ Len(result) = 1
    /\ BreakoutIndexOf(result[1]) = NarrowIndexOf(result[1]) + 12
    /\ NarrowIndexOf(result[1]) > nrb_lookback - 1

(***************************************************************************)
(* C17  Narrow-week qualification and levels                               *)
(***************************************************************************)
\* the n weeks ending at week idx
LastWeeks(idx) == (idx - nrb_lookback + 1)..idx

\* week idx has the minimum spread of its n weeks (a tie with another week included)
HasMinSpread(idx) ==
    \A j \in LastWeeks(idx) :
        Row(idx).high - Row(idx).low <= Row(j).high - Row(j).low

\* some week of the lookahead has a high above every high of the n weeks
HighAboveAhead(idx) ==
    \E m \in WeeksAhead(idx) : \A j \in LastWeeks(idx) : Row(m).high > Row(j).high

\* C17: a loop step at a candidate i outside the cooldown goes on to the
\* breakout search, and so emits when a breakout lies ahead, iff
\* high(i)-low(i) equals the minimum spread over [i-n+1 .. i], ties included;
\* the emitted trigger has rangeHigh = max high and rangeLow = min low over
\* exactly those n weeks, nrHigh/nrLow = high(i)/low(i) and rangeStartTime =
\* date of week i-n+1.
C17_QualificationAndLevels ==
    [][(/\ pc = "scan"
        /\ i < Len(weekly_data) - 1
        /\ ~(last_breakout_idx # -1 /\ i < last_breakout_idx + nrb_lookback))
       =>
       /\ (Len(result') = Len(result) + 1) <=> (HasMinSpread(i) /\ HighAboveAhead(i))
       /\ Len(result') = Len(result) + 1 =>
             LET trig == result'[Len(result')] IN
             /\ trig.range_high = MaxOf({Row(j).high : j \in LastWeeks(i)})
             /\ trig.range_low = MinOf({Row(j).low : j \in LastWeeks(i)})
             /\ trig.nr_high = Row(i).high
             /\ trig.nr_low = Row(i).low
             /\ trig.range_start_time = Timestamp(Row(i - nrb_lookback + 1).date)
             /\ Cardinality(LastWeeks(i)) = nrb_lookback]_vars

\* a trigger was emitted for a narrow week whose spread only ties an earlier
\* week of its window
C17_Witness ==
    /\ pc \in {"scan", "refine", "done"}
    /\ nrb_lookback >= 2
    /\ Len(result) >= 1
    /\ \E j \in LastWeeks(NarrowIndexOf(result[1])) :
          /\ j # NarrowIndexOf(result[1])
          /\ Spread(j) = result[1].nr_high - result[1].nr_low

(***************************************************************************)
(* C18  Regime numbering and fixed fields                                  *)
(***************************************************************************)
\* C18: the triggers of one narrow-range scan carry regimeId 1, 2, ..., m in
\* list order, without gaps or repeats (a candidate discarded for lack of a
\* breakout consumes no id), and each has direction "Bullish Break" and
\* score 0.
C18_RegimeNumbering ==
    pattern = NRB =>
    \A j \in 1..Len(result) :
        /\ result[j].nrb_id = j
        /\ result[j].direction = "Bullish Break"
        /\ result[j].score = 0

\* two regimes were returned although a qualifying week before the first one
\* had no breakout ahead
C18_Witness ==
    /\ pc = "done"
    /\ pattern = NRB
    /\ Len(result) >= 2
    /\ \E idx \in (nrb_lookback - 1)..(NarrowIndexOf(result[1]) - 1) :
          HasMinSpread(idx) /\ ~HighAboveAhead(idx)

(***************************************************************************)
(* C19  Daily refinement rule                                              *)
(***************************************************************************)
\* the monitored value of a stored row: close for price, the series value otherwise
MonitoredValue(row) ==
    IF series_normalized \in PriceSeriesNames THEN row.close ELSE row.value

\* dates of the daily bars in [W-6, W], W the weekly breakout date of the
\* trigger, whose monitored value is strictly above the trigger's rangeHigh
DatesAbove(trig) ==
    LET W == DateOfTimestamp(trig.range_end_time) IN
    { RowsRead[k].trade_date : k \in
        { j \in DOMAIN RowsRead :
            /\ RowsRead[j].trade_date >= W - 6
            /\ RowsRead[j].trade_date <= W
            /\ MonitoredValue(RowsRead[j]) > trig.range_high } }

\* C19: after refinement every Bullish Break trigger with weekly breakout date
\* W has as time the date of the earliest daily bar in [W-6 days, W] whose
\* value (close for price, the indicator value for an indicator series) is
\* strictly greater than rangeHigh; if no bar of the interval is strictly
\* greater (bars equal to rangeHigh included), time is still W.
C19_DailyRefinementRule ==
    RefinedDone =>
    \A j \in 1..Len(result) :
        result[j].direction = "Bullish Break" =>
            result[j].time =
                IF DatesAbove(result[j]) = {}
                THEN result[j].range_end_time
                ELSE Timestamp(MinOf(DatesAbove(result[j])))

\* an indicator-series trigger with two daily bars above rangeHigh in the
\* interval was refined
C19_Witness ==
    /\ RefinedDone
    /\ series_normalized \in PARAM_FIELD_MAP
    /\ \E j \in 1..Len(result) : Cardinality(DatesAbove(result[j])) >= 2

(***************************************************************************)
(* C20  Refinement frame                                                   *)
(***************************************************************************)
\* a trigger with its time blanked
WithoutTime(trig) == [trig EXCEPT !.time = 0]

\* C20: every step of the daily refiner keeps the number and the order of the
\* triggers and changes no field other than time: rangeLow, rangeHigh,
\* rangeStartTime, rangeEndTime (still the weekly breakout date), regimeId,
\* nrHigh, nrLow, score and direction stay, and a trigger without a daily bar
\* above the resistance is kept.
C20_RefinementFrame ==
    [][pc = "refine" =>
          /\ Len(result') = Len(result)
          /\ \A j \in 1..Len(result) :
                /\ WithoutTime(result'[j]) = WithoutTime(result[j])
                /\ \E k \in 0..(Len(weekly_data) - 1) :
                      result'[j].range_end_time = Timestamp(Row(k).date)]_vars

\* the refiner returned two triggers, the first moved to an earlier daily bar
\* and the second left at its weekly breakout date
C20_Witness ==
    /\ RefinedDone
    /\ Len(result) >= 2
    /\ result[1].time < result[1].range_end_time
    /\ result[2].time = result[2].range_end_time

(***************************************************************************)
(* C21  Bowl emission shape                                                *)
(***************************************************************************)
\* C21: each detected bowl appends exactly three triggers, in the order left
\* rim, bottom, right rim, each holding only time, score = 1.0 and the same
\* patternId; patternIds are 1, 2, ..., m in detection order without gaps, so
\* the result length is 3*m and each patternId occurs on exactly three triggers.
C21_BowlEmissionShape ==
    BowlRunning =>
        /\ Len(result) = 3 * (pattern_id - 1)
        /\ \A j \in 1..Len(result) :
              /\ DOMAIN result[j] = {"time", "score", "pattern_id"}
              /\ result[j].score = 1
              /\ result[j].pattern_id = ((j - 1) \div 3) + 1
        /\ \A p \in 1..BowlCount :
              /\ result[3 * p - 2].time < result[3 * p - 1].time
              /\ result[3 * p - 1].time < result[3 * p].time
              /\ StrictlyBelowNeighbours(BottomOf(p))
              /\ LeftRimOf(p) >= BottomOf(p) - 90
              /\ LeftRimOf(p) <= BottomOf(p) - 20
              /\ RightRimOf(p) >= BottomOf(p) + 20
              /\ RightRimOf(p) <= BottomOf(p) + 90

\* the scan returned two bowls
C21_Witness ==
    /\ BowlRunning
    /\ pc = "done"
    /\ Len(result) = 6
    /\ result[4].pattern_id = 2

(***************************************************************************)
(* C22  Bowl breakout confirmation                                         *)
(***************************************************************************)
\* the larger of the two rim values of the p-th emitted bowl
RimLevelOf(p) ==
    IF BRow(LeftRimOf(p)).ema > BRow(RightRimOf(p)).ema
    THEN BRow(LeftRimOf(p)).ema ELSE BRow(RightRimOf(p)).ema

\* C22: whenever a bowl is emitted, its breakout index b (the new value of
\* the last-consumed pointer) is the smallest index in
\* [rightRimIndex+1, min(rightRimIndex+120, len-1)] whose raw closing value is
\* strictly greater than max(leftRim, rightRim); bars at or before the right
\* rim and bars more than 120 positions after it do not confirm a bowl.
C22_BreakoutConfirmation ==
    [][(pc = "bowl" /\ result' # result) =>
          /\ last_used' > RightRimOf(BowlCount)'
          /\ last_used' <= RightRimOf(BowlCount)' + 120
          /\ last_used' <= Len(rows) - 1
          /\ BRow(last_used').close_f > RimLevelOf(BowlCount)'
          /\ \A k \in (RightRimOf(BowlCount)' + 1)..(last_used' - 1) :
                BRow(k).close_f <= RimLevelOf(BowlCount)']_vars

\* a bowl was confirmed although a bar at or before its right rim closed above
\* the rim level too
C22_Witness ==
    /\ BowlRunning
    /\ BowlCount >= 1
    /\ last_used > RightRimOf(BowlCount)
    /\ \E k \in 0..RightRimOf(BowlCount) : BRow(k).close_f > RimLevelOf(BowlCount)

(***************************************************************************)
(* C23  Rim-search skip rule                                               *)
(***************************************************************************)
\* the bars of the clamped left window [max(i-90,0), i-20] and of the clamped
\* right window [i+20, min(i+90,len-1)] of candidate idx
LeftBars(idx) == {k \in 0..(Len(rows) - 1) : k >= idx - 90 /\ k <= idx - 20}
RightBars(idx) == {k \in 0..(Len(rows) - 1) : k >= idx + 20 /\ k <= idx + 90}

\* the loop is at a local-minimum candidate that was not consumed
AtLocalMinimum ==
    /\ pc = "bowl"
    /\ i < Len(rows) - 2
    /\ i > last_used
    /\ StrictlyBelowNeighbours(i)

\* C23: a local-minimum candidate i is skipped at the rim search exactly when
\* its clamped left window or its clamped right window contains no bar; a
\* clamped window of exactly one bar (i = 20, or i + 20 = len-1) is searched.
C23_RimSearchSkipRule ==
    [][AtLocalMinimum =>
          ((verdict' = "no_rims") <=> (LeftBars(i) = {} \/ RightBars(i) = {}))]_vars

(***************************************************************************)
(* C24  Chronological detection order                                      *)
(***************************************************************************)
\* C24: in the list built and returned by the narrow-range path, weekly
\* breakout indices are strictly increasing from one trigger to the next, and
\* trigger times are strictly increasing in list order, before, during and
\* after daily refinement.
C24_ChronologicalOrder ==
    (pattern = NRB /\ pc \in {"scan", "refine", "done"}) =>
    \A j \in 1..(Len(result) - 1) :
        /\ BreakoutIndexOf(result[j]) < BreakoutIndexOf(result[j + 1])
        /\ result[j].range_end_time < result[j + 1].range_end_time
        /\ result[j].time < result[j + 1].time

\* two triggers were returned and the first one was moved by refinement
C24_Witness ==
    /\ RefinedDone
    /\ pattern = NRB
    /\ Len(result) >= 2
    /\ result[1].time # result[1].range_end_time

(***************************************************************************)
(* PatternScanView.get: the markers built from the returned triggers       *)
(* A string is the sequence of its characters.                             *)
(***************************************************************************)
\* the characters of the pattern names the view can be asked for
Chars(p) ==
    CASE p = "Bowl" -> <<"B", "o", "w", "l">>
      [] p = NRB    -> <<"N", "a", "r", "r", "o", "w", " ", "R", "a", "n", "g", "e", " ",
                         "B", "r", "e", "a", "k">>
      [] OTHER      -> <<>>

Digit(d) ==
    CASE d = 0 -> "0" [] d = 1 -> "1" [] d = 2 -> "2" [] d = 3 -> "3" [] d = 4 -> "4"
      [] d = 5 -> "5" [] d = 6 -> "6" [] d = 7 -> "7" [] d = 8 -> "8" [] d = 9 -> "9"

\* f"{pattern_id}": the decimal digits of a non-negative integer
RECURSIVE FormatInt(_)
FormatInt(n) == IF n < 10 THEN <<Digit(n)>> ELSE FormatInt(n \div 10) \o <<Digit(n % 10)>>

\* f"{score:.2f}" for a whole-numbered score
FormatFixed2(x) == FormatInt(x) \o <<".", "0", "0">>

\* row.get(key): None for a missing key
Get(row, key) == IF key \in DOMAIN row THEN Some(row[key]) ELSE None

\* row.get("score", 0.0)
ScoreOf(row) == IF "score" \in DOMAIN row THEN row.score ELSE 0

\* mutant: every marker gets the generic label
MarkerText_Generic(row, pat) ==
    <<"P", "a", "t", "t", "e", "r", "n", ":", " ">> \o Chars(pat)
       \o <<" ", "|", " ", "S", "u", "c", "c", "e", "s", "s", " ",
            "S", "c", "o", "r", "e", ":", " ">> \o FormatFixed2(ScoreOf(row))

\* text = f"Bowl Pattern #{pattern_id} | Score: {score:.2f}" for a bowl trigger,
\*        f"Pattern: {pattern} | Success Score: {score:.2f}" otherwise
MarkerText(row, pat) ==
    IF pat = "Bowl" /\ Get(row, "pattern_id") # None
    THEN <<"B", "o", "w", "l", " ", "P", "a", "t", "t", "e", "r", "n", " ", "#">>
            \o FormatInt(row.pattern_id)
            \o <<" ", "|", " ", "S", "c", "o", "r", "e", ":", " ">>
            \o FormatFixed2(ScoreOf(row))
    ELSE <<"P", "a", "t", "t", "e", "r", "n", ":", " ">> \o Chars(pat)
            \o <<" ", "|", " ", "S", "u", "c", "c", "e", "s", "s", " ",
                 "S", "c", "o", "r", "e", ":", " ">> \o FormatFixed2(ScoreOf(row))

\* the dict appended to markers
Marker(row, pat) ==
    [time             |-> row.time,
     position         |-> "aboveBar",
     color            |-> "#2196F3",
     shape            |-> "circle",
     text             |-> MarkerText(row, pat),
     pattern_id       |-> Get(row, "pattern_id"),
     range_low        |-> Get(row, "range_low"),
     range_high       |-> Get(row, "range_high"),
     range_start_time |-> Get(row, "range_start_time"),
     range_end_time   |-> Get(row, "range_end_time"),
     nrb_id           |-> Get(row, "nrb_id"),
     nr_high          |-> Get(row, "nr_high"),
     nr_low           |-> Get(row, "nr_low"),
     direction        |-> Get(row, "direction")]

\* "for row in trigger_markers: markers.append(...)" after get_pattern_triggers returned
PatternScanViewMarkers ==
    /\ pc = "done"
    /\ entry = GPT
    /\ markers' = [j \in 1..Len(result) |-> Marker(result[j], pattern)]
    /\ pc' = "responded"
    /\ UNCHANGED <<entry, pattern, series, weeks, weeks_given, eod_rows, param_rows,
                   call_no, first_result, success_rate, legacy_nrb_lookback,
                   weekly_data, nrb_lookback, ScanLocals, result, t, BowlLocals>>

InitView == InitGpt \/ InitBowlFew

NextView ==
    \/ Next
    \/ NextBowl
    \/ PatternScanViewMarkers

SpecView == InitView /\ [][NextView]_vars

(***************************************************************************)
(* C25  Marker labelling                                                   *)
(***************************************************************************)
\* whether the character sequence sub occurs in the character sequence s
Contains(s, sub) ==
    \E k \in 0..(Len(s) - Len(sub)) : SubSeq(s, k + 1, k + Len(sub)) = sub

RangeFields == {"range_low", "range_high", "range_start_time", "range_end_time",
                "nr_high", "nr_low"}

\* one marker per trigger, in order, time and numeric range fields copied
MarkersCopyTriggers ==
    /\ Len(markers) = Len(result)
    /\ \A j \in 1..Len(result) :
          /\ markers[j].time = result[j].time
          /\ \A f \in RangeFields :
                markers[j][f] = IF f \in DOMAIN result[j] THEN <<result[j][f]>> ELSE <<>>

\* the two-decimal rendering of the scores the detectors assign
ScoreText(x) == IF x = 0 THEN <<"0", ".", "0", "0">> ELSE <<"1", ".", "0", "0">>

\* C25 as stated: the presentation step produces exactly one marker per
\* trigger, in the same order, with time and all numeric range fields copied
\* unchanged, and each marker's text contains the trigger's group identifier
\* (regimeId for narrow-range markers, patternId for bowl markers) together
\* with its numeric score.
C25_Original ==
    pc = "responded" =>
    /\ MarkersCopyTriggers
    /\ \A j \in 1..Len(result) :
          /\ Contains(markers[j].text, ScoreText(result[j].score))
          /\ pattern = "Bowl" => Contains(markers[j].text, FormatInt(result[j].pattern_id))
          /\ pattern = NRB => Contains(markers[j].text, FormatInt(result[j].nrb_id))

\* C25 amended: one marker per trigger, in the same order, with time and all
\* numeric range fields copied unchanged; a bowl marker's text contains
\* "#" followed by the patternId, and the score; a narrow-range marker's text
\* contains the pattern name and the score but not the regimeId, which the
\* marker carries in its nrb_id field only.
C25_MarkerLabelling ==
    pc = "responded" =>
    /\ MarkersCopyTriggers
    /\ \A j \in 1..Len(result) :
          /\ Contains(markers[j].text, ScoreText(result[j].score))
          /\ pattern = "Bowl" =>
                /\ Contains(markers[j].text, <<"#">> \o FormatInt(result[j].pattern_id))
                /\ markers[j].pattern_id = <<result[j].pattern_id>>
          /\ pattern = NRB =>
                /\ Contains(markers[j].text, Chars(NRB))
                /\ ~Contains(markers[j].text, FormatInt(result[j].nrb_id))
                /\ markers[j].nrb_id = <<result[j].nrb_id>>

\* markers were built for two narrow-range regimes
C25_Witness ==
    /\ pc = "responded"
    /\ pattern = NRB
    /\ Len(markers) >= 2

(***************************************************************************)
(* The same request repeated with another success_rate and nrb_lookback    *)
(***************************************************************************)
\* <<success_rate, nrb_lookback>> of the second call; the first call passes <<0, NRB_LOOKBACK>>
OtherRates == { <<50, NRB_LOOKBACK>>, <<1, 1>>, <<100, 20>> }

\* the caller repeats get_pattern_triggers on the same instrument data, pattern,
\* weeks and series, with another success_rate and another nrb_lookback
CallWithOtherRate ==
    /\ pc = "done"
    /\ entry = GPT
    /\ call_no = 1
    /\ call_no' = 2
    /\ first_result' = result
    /\ \E a \in OtherRates :
          /\ success_rate' = a[1]
          /\ legacy_nrb_lookback' = a[2]
    /\ pc' = "entry"
    /\ UNCHANGED <<entry, pattern, series, weeks, weeks_given, eod_rows, param_rows,
                   weekly_data, nrb_lookback, ScanLocals, result, t, BowlLocals, markers>>

InitRate == InitGpt \/ InitBowlFew

NextRate ==
    \/ Next
    \/ NextBowl
    \/ CallWithOtherRate

SpecRate == InitRate /\ [][NextRate]_vars

DailyRows == IF series_normalized \in PriceSeriesNames THEN eod_rows ELSE param_rows
Candles ==
    IF series_normalized \in PriceSeriesNames
    THEN get_weekly_queryset(eod_rows)
    ELSE param_weekly_qs(param_rows)

\* the daily rows in calendar week number w (weeks run Monday to Sunday)
RowsInWeek(w) == {k \in DOMAIN DailyRows : DailyRows[k].trade_date \div 7 = w}

\* v is the largest (smallest) of the values S
IsMaxOf(v, S) == v \in S /\ \A x \in S : x <= v
IsMinOf(v, S) == v \in S /\ \A x \in S : x >= v

\* C27: the aggregator emits exactly one candle per calendar week that
\* contains at least one daily bar and none for weeks without bars, ordered
\* ascending by week, with high = max of the week's highs, low = min of the
\* week's lows, open = min of opens, close = max of closes and weekEndDate =
\* the latest daily date in that week; for an indicator series high = max and
\* low = min of the week's values. The detector is handed these candles.
C27_WeeklyAggregation ==
    (entry = GPT /\ pattern = NRB) =>
    /\ \A k \in DOMAIN DailyRows :
          Cardinality({j \in DOMAIN Candles :
              Candles[j].date \div 7 = DailyRows[k].trade_date \div 7}) = 1
    /\ \A j \in DOMAIN Candles : RowsInWeek(Candles[j].date \div 7) # {}
    /\ \A j \in 1..(Len(Candles) - 1) :
          /\ Candles[j].week < Candles[j + 1].week
          /\ Candles[j].date < Candles[j + 1].date
    /\ \A j \in DOMAIN Candles :
          LET g == RowsInWeek(Candles[j].date \div 7) IN
          /\ Candles[j].week = 7 * (Candles[j].date \div 7)
          /\ IsMaxOf(Candles[j].date, {DailyRows[k].trade_date : k \in g})
          /\ IF series_normalized \in PriceSeriesNames
             THEN /\ IsMaxOf(Candles[j].high, {DailyRows[k].high : k \in g})
                  /\ IsMinOf(Candles[j].low, {DailyRows[k].low : k \in g})
                  /\ IsMinOf(Candles[j].open, {DailyRows[k].open : k \in g})
                  /\ IsMaxOf(Candles[j].close, {DailyRows[k].close : k \in g})
             ELSE /\ IsMaxOf(Candles[j].high, {DailyRows[k].value : k \in g})
                  /\ IsMinOf(Candles[j].low, {DailyRows[k].value : k \in g})
    /\ pc = "scan" =>
          /\ Len(weekly_data) = Len(Candles)
          /\ \A j \in DOMAIN Candles :
                /\ weekly_data[j].date = Candles[j].date
                /\ weekly_data[j].high = Candles[j].high
                /\ weekly_data[j].low = Candles[j].low

\* the detector scans candles aggregated from price rows that leave a calendar
\* week without bars and have a week of two bars with different closes
C27_Witness ==
    /\ entry = GPT
    /\ pc = "scan"
    /\ series_normalized \in PriceSeriesNames
    /\ \E j \in 1..(Len(weekly_data) - 1) :
          weekly_data[j + 1].week > weekly_data[j].week + 7
    /\ \E k \in 1..(Len(eod_rows) - 1) :
          /\ eod_rows[k].trade_date \div 7 = eod_rows[k + 1].trade_date \div 7
          /\ eod_rows[k].close # eod_rows[k + 1].close

(***************************************************************************)
(* C28  The duration check is redundant                                    *)
(***************************************************************************)
\* C28: for every candidate that reaches the duration check, leftRimIndex <=
\* bottom-20 and rightRimIndex >= bottom+20, and for emitted bowls
\* rightRimIndex < breakoutIndex; the rows having strictly ascending dates,
\* the left-rim-to-right-rim span is at least 40 calendar days and the
\* duration check never rejects a candidate.
C28_DurationCheckRedundant ==
    [][(AtLocalMinimum /\ verdict' # "no_rims") =>
          /\ left_idx(i) <= i - 20
          /\ right_idx(i) >= i + 20
          /\ BRow(right_idx(i)).date - BRow(left_idx(i)).date >= 40
          /\ verdict' # "too_short"
          /\ verdict' = "emit" => right_idx(i) < last_used']_vars

\* a candidate whose rims are the nearest the windows allow passed the
\* duration check
C28_Witness ==
    /\ BowlRunning
    /\ pc = "bowl"
    /\ verdict \in {"too_shallow", "asymmetric", "no_breakout", "emit"}
    /\ i >= 1
    /\ ~NoRimWindow(i - 1)
    /\ right_idx(i - 1) - left_idx(i - 1) <= 50

(***************************************************************************)
(* C29  Bowl watermark                                                     *)
(***************************************************************************)
\* C29: during a scan the last-consumed pointer never decreases and changes
\* only when a bowl is emitted; every emitted bowl's bottom index is strictly
\* greater than the breakout index of the previously emitted bowl, so the
\* bottoms and their trigger times are strictly increasing in detection order.
C29_Watermark ==
    /\ [](BowlRunning =>
            \A p \in 1..(BowlCount - 1) :
                /\ BottomOf(p + 1) > BreakoutOf(p)
                /\ BottomOf(p + 1) > BottomOf(p)
                /\ result[3 * p + 2].time > result[3 * p - 1].time)
    /\ [][pc = "bowl" =>
            /\ last_used' >= last_used
            /\ (last_used' # last_used) <=> (result' # result)
            /\ (result' # result) =>
                  /\ i > last_used
                  /\ last_used' > i
                  /\ BottomOf(BowlCount)' = i
                  /\ last_used' = BreakoutOf(BowlCount)']_vars

\* a second bowl was emitted, its bottom after the rows the first bowl consumed
C29_Witness ==
    /\ BowlRunning
    /\ BowlCount >= 2
    /\ last_used = BreakoutOf(2)
    /\ BreakoutOf(1) > RightRimOf(1) + 1
    /\ BottomOf(2) > BreakoutOf(1)

(***************************************************************************)
(* C30  Refinement stays inside the breakout week                          *)
(***************************************************************************)
\* calendar week number of a timestamp
WeekNoOf(ts) == DateOfTimestamp(ts) \div 7

\* no stored price bar closes above its own high
CloseWithinHigh == \A k \in DOMAIN eod_rows : eod_rows[k].close <= eod_rows[k].high

\* the daily bars of the interval [W-6, W] of a trigger that lie in the
\* calendar week before the breakout week
EarlierWeekBars(trig) ==
    { k \in DOMAIN RowsRead :
        /\ RowsRead[k].trade_date >= DateOfTimestamp(trig.range_end_time) - 6
        /\ RowsRead[k].trade_date \div 7 < WeekNoOf(trig.range_end_time) }

\* C30: for an indicator series, and for a price series whose daily close
\* never exceeds the daily high, the bar chosen by refinement belongs to the
\* breakout week itself although the interval [W-6 days, W] can reach into the
\* preceding calendar week; for an indicator series a qualifying bar always
\* exists, so time is the date of a bar of the breakout week whose value is
\* above rangeHigh.
C30_RefinementInBreakoutWeek ==
    RefinedDone =>
    \A j \in 1..Len(result) :
        /\ (series_normalized \in PARAM_FIELD_MAP \/ CloseWithinHigh) =>
              /\ WeekNoOf(result[j].time) = WeekNoOf(result[j].range_end_time)
              /\ result[j].time <= result[j].range_end_time
              /\ \A k \in EarlierWeekBars(result[j]) :
                    MonitoredValue(RowsRead[k]) <= result[j].range_high
        /\ series_normalized \in PARAM_FIELD_MAP =>
              \E k \in DOMAIN param_rows :
                  /\ Timestamp(param_rows[k].trade_date) = result[j].time
                  /\ param_rows[k].value > result[j].range_high

\* an indicator-series trigger was moved by refinement, its interval holding a
\* bar of the preceding calendar week
C30_Witness ==
    /\ RefinedDone
    /\ series_normalized \in PARAM_FIELD_MAP
    /\ \E j \in 1..Len(result) :
          /\ EarlierWeekBars(result[j]) # {}
          /\ result[j].time < result[j].range_end_time

====
